---- MODULE Spec2Model ----
(***************************************************************************)
(* Model of the adaptive flashcard quiz (quiz page: src/unnamed/part_001,  *)
(* statistics page: src/src/js/stats.js).                                  *)
(*                                                                         *)
(* One browser tab is modelled.  The tab shows either the quiz page or the *)
(* statistics page; localStorage and sessionStorage survive navigation,    *)
(* the scripts' module-level variables do not.                             *)
(***************************************************************************)
EXTENDS Integers, Sequences, FiniteSets, TLC

\* ------------------------------------------------------------------ bounds
\* Longest per-question history the model lets an answer produce.
MaxHist == 3
\* Most answers submitted in one run of the model.
MaxAnswers == 2
\* Most bank fetches in flight at once.
MaxPending == 2
\* Longest history given to a function checked on its own.
MaxLen == 5
\* Most questions in a bank given to renderMastery on its own.
MaxBank == 2
\* Longest single-run history (trues, then falses) given to calculateAccuracy.
MaxTotal == 40
\* Longest history of a question given to buildTopicTree on its own.
MaxTreeHist == 2
\* Longest topic string, in tokens, given to normalizeTopicPaths on its own.
\* Largest bank given to renderMastery for the coverage percentage.
MaxCover == 40
\* Answers in a run of one quiz, and answers to one question in it.
MaxRunAnswers == 9
MaxRunHist == 4
MaxTokens == 4
\* Longest history given to calculateImprovement on its own.
MaxTrend == 7

\* --------------------------------------------------------------- constants
MASTERED_STREAK == 3
\* Math.pow(0.9, k) is kept exact as DecayNum^k / DecayDen^k.
DecayNum == 9
DecayDen == 10
\* const CRITICAL_STREAK = 3; const MOSTLY_CORRECT_THRESHOLD = 0.6 (as 6/10).
CRITICAL_STREAK == 3
ThresholdNum == 6
ThresholdDen == 10

Null == "null"

\* ------------------------------------------------------------------ inputs
\* The quiz identifiers offered by the quiz selector, and the bank that
\* /_data/<quizId>.json holds for each (data.questions, ids unique per quiz).
QuizIds == {"A", "B"}
Bank(quizId) == IF quizId = "A" THEN <<"a1", "a2">> ELSE <<"b1">>
DefaultQuiz == "A"

Range(s) == {s[i] : i \in 1..Len(s)}
AllQuestionIds == UNION {Range(Bank(x)) : x \in QuizIds}

Histories(n) == UNION {[1..k -> BOOLEAN] : k \in 0..n}

RECURSIVE Pow(_, _)
Pow(b, e) == IF e = 0 THEN 1 ELSE b * Pow(b, e - 1)

\* ------------------------------------------------------- storage values
\* What getItem returns for a key: nothing, a text JSON.parse rejects, or
\* the text JSON.stringify produced for a value.
Absent == [kind |-> "absent", val |-> <<>>]
Corrupt == [kind |-> "corrupt", val |-> <<>>]
JSONstringify(v) == [kind |-> "json", val |-> v]
\* JSON.parse(getItem(k)) || dflt, for a text that parses
\* (JSON.parse(null) is null).
JSONparseOr(item, dflt) == IF item.kind = "json" THEN item.val ELSE dflt
Throws(item) == item.kind = "corrupt"

EmptyStats == [q \in {} |-> <<>>]

\* getStorageKey(prefix): prefix + currentQuizId.  The prefix picks the
\* store (quizStats_ in localStorage, quizSession_ in sessionStorage), the
\* quiz id the entry in it.
getStorageKey(cur) == cur

\* ------------------------------------------------------- selectNextQuestion
\* userStats[q.id]?.history || []
HistoryOf(stats, q) == IF q \in DOMAIN stats THEN stats[q] ELSE <<>>

\* history.length >= MASTERED_STREAK && history.slice(-MASTERED_STREAK).every(Boolean)
MasteredAlt(h) ==
    /\ Len(h) >= MASTERED_STREAK - 1
    /\ \A i \in (Len(h) - MASTERED_STREAK + 2)..Len(h) : h[i]
Mastered(h) ==
    /\ Len(h) >= MASTERED_STREAK
    /\ \A i \in (Len(h) - MASTERED_STREAK + 1)..Len(h) : h[i]

masteredQuestions(bank, stats) ==
    {bank[i] : i \in {j \in 1..Len(bank) : Mastered(HistoryOf(stats, bank[j]))}}

availableQuestions(bank, stats) ==
    LET m == masteredQuestions(bank, stats)
        keep(q) == q \notin m
    IN  SelectSeq(bank, keep)

candidatePoolNoAvoid(bank, stats, last) == availableQuestions(bank, stats)
candidatePool(bank, stats, last) ==
    LET avail == availableQuestions(bank, stats)
        other(q) == q # last
    IN  IF Len(avail) > 1 THEN SelectSeq(avail, other) ELSE avail

\* score += (isCorrect ? 1 : -1) * Math.pow(0.9, history.length - 1 - index),
\* as an integer: every term is multiplied by DecayDen^ScoreScale.
ScoreScale == MaxHist + 1
\* A variant that adds every term whatever the answer was.
ScoreNoSign(h) ==
    LET term(i) == Pow(DecayNum, Len(h) - i) * Pow(DecayDen, ScoreScale - (Len(h) - i))
        sum[i \in 0..Len(h)] == IF i = 0 THEN 0 ELSE sum[i - 1] + term(i)
    IN  sum[Len(h)]
Score(h) ==
    LET term(i) == (IF h[i] THEN 1 ELSE -1)
                     * Pow(DecayNum, Len(h) - i)
                     * Pow(DecayDen, ScoreScale - (Len(h) - i))
        sum[i \in 0..Len(h)] == IF i = 0 THEN 0 ELSE sum[i - 1] + term(i)
    IN  sum[Len(h)]

\* The forEach over candidatePool that keeps worstScore and candidates;
\* Infinity is none(TRUE).
RECURSIVE ScanPool(_, _, _, _, _)
ScanPool(pool, stats, i, worst, cands) ==
    IF i > Len(pool) THEN cands
    ELSE LET s == Score(HistoryOf(stats, pool[i]))
         IN  IF worst.none \/ s < worst.val
             THEN ScanPool(pool, stats, i + 1, [none |-> FALSE, val |-> s], <<pool[i]>>)
             ELSE IF s = worst.val
                  THEN ScanPool(pool, stats, i + 1, worst, Append(cands, pool[i]))
                  ELSE ScanPool(pool, stats, i + 1, worst, cands)

candidatesFirstOnly(pool, stats) ==
    LET c == ScanPool(pool, stats, 1, [none |-> TRUE, val |-> 0], <<>>)
    IN  IF c = <<>> THEN c ELSE <<c[1]>>
candidates(pool, stats) == ScanPool(pool, stats, 1, [none |-> TRUE, val |-> 0], <<>>)

\* Every value selectNextQuestion can return: Null, or any element of
\* candidates (Math.floor(Math.random() * candidates.length) is any index).
selectNextQuestion(bank, stats, last) ==
    IF Cardinality(masteredQuestions(bank, stats)) = Len(bank) /\ Len(bank) > 0
    THEN {Null}
    ELSE LET pool == candidatePool(bank, stats, last)
         IN  IF Len(pool) = 0 THEN {Null}
             ELSE Range(candidates(pool, stats))


\* ------------------------------------------------------------------- state
VARIABLES
    page,             \* which page's script is alive in the tab: "quiz" or "stats"
    currentQuizId,    \* let currentQuizId
    lsCurrentQuizId,  \* localStorage['currentQuizId'] (Null: not set)
    allQuestions,     \* let allQuestions
    userStats,        \* let userStats: question id -> history
    sessionStats,     \* let sessionStats: its history
    lastQuestionId,   \* let lastQuestionId
    localStore,       \* localStorage['quizStats_' + id], per quiz id
    sessionStore,     \* sessionStorage['quizSession_' + id], per quiz id
    pending,          \* fetches of /_data/<id>.json awaited, per quiz id
    dom,              \* what the page shows and which listeners are attached
    lastOp,           \* history variable: the handler that ran last
    bankOf,           \* history variable: quiz whose fetched bank allQuestions is
    statsOf,          \* history variable: quiz id whose key userStats was read from
    answers,          \* history variable: answers submitted so far
    arg,              \* inputs of the function under test (function specifications)
    res               \* its result

progVars == <<page, currentQuizId, lsCurrentQuizId, allQuestions, userStats,
              sessionStats, lastQuestionId, localStore, sessionStore, pending,
              dom, lastOp, bankOf, statsOf, answers>>
vars == <<page, currentQuizId, lsCurrentQuizId, allQuestions, userStats,
          sessionStats, lastQuestionId, localStore, sessionStore, pending,
          dom, lastOp, bankOf, statsOf, answers, arg, res>>


\* ----------------------------------------------------------------- the DOM
\* flashcard: content of #flashcard-container ("template" as served, "card"
\* a rendered question with #check-answer-btn, "error" the failure text);
\* handlers: click listeners on #check-answer-btn in registration order;
\* resetBound: resetAllProgress is attached to #reset-progress;
\* tbody: content of #topics-tbody on the statistics page.
CheckHandler(q) == [h |-> "check", q |-> q]
NextHandler == [h |-> "next", q |-> Null]
InitDom == [flashcard |-> "template", flashcardVisible |-> TRUE,
            completeVisible |-> FALSE, shown |-> Null, handlers |-> <<>>,
            resetBound |-> FALSE, tbody |-> "template"]

\* A variant without the cloneNode/replaceWith of the check button: the
\* listeners of earlier renders stay on it.
renderQuestionKeepListeners(d, q) ==
    IF q = Null
    THEN [d EXCEPT !.flashcardVisible = FALSE, !.completeVisible = TRUE,
                   !.resetBound = TRUE]
    ELSE [d EXCEPT !.flashcardVisible = TRUE, !.completeVisible = FALSE,
                   !.flashcard = "card", !.shown = q,
                   !.handlers = Append(@, CheckHandler(q))]
\* renderQuestion(q): the completion message for null; otherwise the card
\* of q, whose check button is replaced by a clone (which carries no
\* listener) before handleCheckAnswer of q is added.
renderQuestion(d, q) ==
    IF q = Null
    THEN [d EXCEPT !.flashcardVisible = FALSE, !.completeVisible = TRUE,
                   !.resetBound = TRUE]
    ELSE [d EXCEPT !.flashcardVisible = TRUE, !.completeVisible = FALSE,
                   !.flashcard = "card", !.shown = q,
                   !.handlers = <<CheckHandler(q)>>]

\* The catch block of loadQuiz: innerHTML of the container becomes the
\* error text, which removes the question and the check button.
loadQuizCatchSilent(d) == d
loadQuizCatch(d) == [d EXCEPT !.flashcard = "error", !.shown = Null, !.handlers = <<>>]

\* ------------------------------------------------------ loadStats/saveStats
\* A variant whose catch would empty only the value that failed to parse.
loadStatsKeepOther(ls, ss, cur, bank) ==
    LET key == getStorageKey(cur)
        rawUser == IF Throws(ls[key]) THEN EmptyStats ELSE JSONparseOr(ls[key], EmptyStats)
        rawSess == IF Throws(ss[key]) THEN <<>> ELSE JSONparseOr(ss[key], <<>>)
    IN  [user |-> [q \in (DOMAIN rawUser) \cup Range(bank) |->
                      IF q \in DOMAIN rawUser THEN rawUser[q] ELSE <<>>],
         session |-> rawSess]
\* A variant without the forEach that creates the missing records.
loadStatsNoFill(ls, ss, cur, bank) ==
    LET key == getStorageKey(cur)
        failed == Throws(ls[key]) \/ Throws(ss[key])
    IN  [user |-> IF failed THEN EmptyStats ELSE JSONparseOr(ls[key], EmptyStats),
         session |-> IF failed THEN <<>> ELSE JSONparseOr(ss[key], <<>>)]
\* Either JSON.parse throwing lands in the catch, which empties both.
loadStats(ls, ss, cur, bank) ==
    LET key == getStorageKey(cur)
        failed == Throws(ls[key]) \/ Throws(ss[key])
        rawUser == IF failed THEN EmptyStats ELSE JSONparseOr(ls[key], EmptyStats)
        rawSess == IF failed THEN <<>> ELSE JSONparseOr(ss[key], <<>>)
    IN  [user |-> [q \in (DOMAIN rawUser) \cup Range(bank) |->
                      IF q \in DOMAIN rawUser THEN rawUser[q] ELSE <<>>],
         session |-> rawSess]

saveStatsLocal(ls, cur, user) ==
    [ls EXCEPT ![getStorageKey(cur)] = JSONstringify(user)]
\* A variant of saveStats without the sessionStorage.setItem line.
saveStatsSessionSkip(ss, cur, sess) == ss
saveStatsSession(ss, cur, sess) ==
    [ss EXCEPT ![getStorageKey(cur)] = JSONstringify(sess)]

\* removeItem(getStorageKey(prefix))
removeAll(store, cur) == [x \in DOMAIN store |-> Absent]
removeNone(store, cur) == store
removeItem(store, cur) == [store EXCEPT ![getStorageKey(cur)] = Absent]

\* stats.js loadData
loadData(ls, cur) ==
    LET item == ls[getStorageKey(cur)]
    IN  IF Throws(item) THEN EmptyStats ELSE JSONparseOr(item, EmptyStats)

PendingTotal == LET S == QuizIds
                    RECURSIVE Sum(_)
                    Sum(T) == IF T = {} THEN 0
                              ELSE LET x == CHOOSE y \in T : TRUE
                                   IN  pending[x] + Sum(T \ {x})
                IN  Sum(S)

\* -------------------------------------------------------------------- Init
\* What the two storage areas may hold for quiz A when the tab is opened:
\* nothing, an unparseable text, or what an earlier visit saved (a1 answered
\* correctly three times, a2 twice).  Nothing is stored for the other quiz.
SavedEarlier == ("a1" :> <<TRUE, TRUE, TRUE>>) @@ ("a2" :> <<TRUE, TRUE>>)
InitStorage ==
    { <<Absent, Absent>>, <<Corrupt, Absent>>,
      <<JSONstringify(SavedEarlier), Absent>>,
      <<JSONstringify(SavedEarlier), Corrupt>> }

\* The state after the DOMContentLoaded handler of the quiz page has run:
\* it ends by calling loadQuiz(currentQuizId), whose fetch is awaited.
Init ==
    /\ page = "quiz"
    /\ currentQuizId = DefaultQuiz
    /\ lsCurrentQuizId = DefaultQuiz
    /\ allQuestions = <<>>
    /\ userStats = EmptyStats
    /\ sessionStats = <<>>
    /\ lastQuestionId = Null
    /\ \E st \in InitStorage :
         /\ localStore = [x \in QuizIds |-> IF x = DefaultQuiz THEN st[1] ELSE Absent]
         /\ sessionStore = [x \in QuizIds |-> IF x = DefaultQuiz THEN st[2] ELSE Absent]
    /\ pending = [x \in QuizIds |-> IF x = DefaultQuiz THEN 1 ELSE 0]
    /\ dom = InitDom
    /\ lastOp = "init"
    /\ bankOf = Null
    /\ statsOf = Null
    /\ answers = 0
    /\ arg = Null
    /\ res = Null

\* ----------------------------------------------------------------- actions
\* quizSelect 'change' -> loadQuiz(quizId), up to its await.
SwitchQuiz(quizId) ==
    /\ page = "quiz"
    /\ quizId # currentQuizId
    /\ PendingTotal < MaxPending
    /\ currentQuizId' = quizId
    /\ lsCurrentQuizId' = quizId
    /\ pending' = [pending EXCEPT ![quizId] = @ + 1]
    /\ lastOp' = "switch"
    /\ UNCHANGED <<page, allQuestions, userStats, sessionStats, lastQuestionId,
                   localStore, sessionStore, dom, bankOf, statsOf, answers, arg, res>>

\* loadQuiz(quizId) resumed with an OK response: the try block.
FetchOk(quizId) ==
    /\ page = "quiz"
    /\ pending[quizId] > 0
    /\ pending' = [pending EXCEPT ![quizId] = @ - 1]
    /\ LET loaded == loadStats(localStore, sessionStore, currentQuizId, Bank(quizId))
       IN  /\ allQuestions' = Bank(quizId)
           /\ userStats' = loaded.user
           /\ sessionStats' = loaded.session
           /\ \E r \in selectNextQuestion(Bank(quizId), loaded.user, lastQuestionId) :
                /\ lastQuestionId' = IF r = Null THEN lastQuestionId ELSE r
                /\ dom' = renderQuestion(dom, r)
                /\ lastOp' = "fetchOk"
    /\ bankOf' = quizId
    /\ statsOf' = currentQuizId
    /\ UNCHANGED <<page, currentQuizId, lsCurrentQuizId, localStore, sessionStore,
                   answers, arg, res>>

\* loadQuiz(quizId) resumed with a rejected fetch or a non-OK response: the
\* catch block.
FetchFail(quizId) ==
    /\ page = "quiz"
    /\ pending[quizId] > 0
    /\ pending' = [pending EXCEPT ![quizId] = @ - 1]
    /\ dom' = loadQuizCatch(dom)
    /\ lastOp' = "fetchFail"
    /\ UNCHANGED <<page, currentQuizId, lsCurrentQuizId, allQuestions, userStats,
                   sessionStats, lastQuestionId, localStore, sessionStore,
                   bankOf, statsOf, answers, arg, res>>

\* A variant in which the button of a hidden flashcard could be clicked.
CanClickHidden(kind) ==
    /\ page = "quiz"
    /\ dom.flashcard = "card"
    /\ Len(dom.handlers) = 1
    /\ dom.handlers[1].h = kind
\* The check button is there to click, with the question's handler on it.
CanClick(kind) ==
    /\ page = "quiz"
    /\ dom.flashcardVisible
    /\ dom.flashcard = "card"
    /\ Len(dom.handlers) = 1
    /\ dom.handlers[1].h = kind

\* A variant of checkAnswer that would log a submission with no option
\* checked as a wrong answer.
SubmitNoSelectionAsWrong ==
    /\ CanClick("check")
    /\ Len(sessionStats) < MaxHist
    /\ sessionStats' = Append(sessionStats, FALSE)
    /\ lastOp' = "submitEmpty"
    /\ UNCHANGED <<page, currentQuizId, lsCurrentQuizId, allQuestions, userStats,
                   lastQuestionId, localStore, sessionStore, pending,
                   dom, bankOf, statsOf, answers, arg, res>>

\* checkAnswer with no option checked: returns at once.
SubmitNoSelection ==
    /\ CanClick("check")
    /\ lastOp' = "submitEmpty"
    /\ UNCHANGED <<page, currentQuizId, lsCurrentQuizId, allQuestions, userStats,
                   sessionStats, lastQuestionId, localStore, sessionStore, pending,
                   dom, bankOf, statsOf, answers, arg, res>>

\* checkAnswer(q, ...) with an option checked; isCorrect is
\* userAnswer === q.correctAnswer.
\* maxHist and maxAnswers bound the run, not the program.
SubmitAnswerWithin(isCorrect, maxHist, maxAnswers) ==
    /\ CanClick("check")
    /\ LET q == dom.handlers[1].q
       IN  /\ q \in DOMAIN userStats
           /\ Len(userStats[q]) < maxHist
           /\ answers < maxAnswers
           /\ answers' = answers + 1
           /\ userStats' = [userStats EXCEPT ![q] = Append(@, isCorrect)]
           /\ sessionStats' = Append(sessionStats, isCorrect)
           /\ localStore' = saveStatsLocal(localStore, currentQuizId, userStats')
           /\ sessionStore' = saveStatsSession(sessionStore, currentQuizId, sessionStats')
           /\ dom' = [dom EXCEPT !.handlers = <<NextHandler>>]
           /\ lastOp' = "answer"
    /\ UNCHANGED <<page, currentQuizId, lsCurrentQuizId, allQuestions,
                   lastQuestionId, pending, bankOf, statsOf, arg, res>>

SubmitAnswer(isCorrect) == SubmitAnswerWithin(isCorrect, MaxHist, MaxAnswers)

\* handleNextQuestion: removes itself, then renderQuestion(selectNextQuestion()).
ClickNext ==
    /\ CanClick("next")
    /\ \E r \in selectNextQuestion(allQuestions, userStats, lastQuestionId) :
         /\ lastQuestionId' = IF r = Null THEN lastQuestionId ELSE r
         /\ dom' = renderQuestion([dom EXCEPT !.handlers = <<>>], r)
         /\ lastOp' = "next"
    /\ UNCHANGED <<page, currentQuizId, lsCurrentQuizId, allQuestions, userStats,
                   sessionStats, localStore, sessionStore, pending, bankOf,
                   statsOf, answers, arg, res>>

\* #reset-progress sits in the completion message and is clicked there.
CanReset == page = "quiz" /\ dom.completeVisible /\ dom.resetBound

\* resetAllProgress, confirm() answered Cancel.
ResetDecline ==
    /\ CanReset
    /\ lastOp' = "resetDecline"
    /\ UNCHANGED <<page, currentQuizId, lsCurrentQuizId, allQuestions, userStats,
                   sessionStats, lastQuestionId, localStore, sessionStore, pending,
                   dom, bankOf, statsOf, answers, arg, res>>

\* resetAllProgress, confirm() answered OK.
ResetConfirm ==
    /\ CanReset
    /\ localStore' = removeItem(localStore, currentQuizId)
    /\ sessionStore' = removeItem(sessionStore, currentQuizId)
    /\ LET loaded == loadStats(localStore', sessionStore', currentQuizId, allQuestions)
       IN  /\ userStats' = loaded.user
           /\ sessionStats' = loaded.session
           /\ \E r \in selectNextQuestion(allQuestions, loaded.user, lastQuestionId) :
                /\ lastQuestionId' = IF r = Null THEN lastQuestionId ELSE r
                /\ dom' = renderQuestion(dom, r)
                /\ lastOp' = "resetConfirm"
    /\ statsOf' = currentQuizId
    /\ UNCHANGED <<page, currentQuizId, lsCurrentQuizId, allQuestions, pending,
                   bankOf, answers, arg, res>>

\* The quiz page is (re)loaded: its script starts from its initial values
\* and calls loadQuiz(currentQuizId).
StartPage(p, opname) ==
    LET cur == IF lsCurrentQuizId = Null THEN DefaultQuiz ELSE lsCurrentQuizId
    IN  /\ page' = p
        /\ currentQuizId' = cur
        /\ lsCurrentQuizId' = cur
        /\ allQuestions' = <<>>
        /\ userStats' = EmptyStats
        /\ sessionStats' = <<>>
        /\ lastQuestionId' = Null
        /\ pending' = [x \in QuizIds |-> IF x = cur THEN 1 ELSE 0]
        /\ dom' = InitDom
        /\ lastOp' = opname
        /\ bankOf' = Null
        /\ statsOf' = Null
        /\ UNCHANGED <<answers, arg, res>>

OpenQuizPage ==
    /\ StartPage("quiz", "openQuiz")
    /\ UNCHANGED <<localStore, sessionStore>>

\* The statistics page is opened: its script ends by calling
\* loadStatsForQuiz(currentQuizId).
OpenStatsPage ==
    /\ StartPage("stats", "openStats")
    /\ UNCHANGED <<localStore, sessionStore>>

\* stats.js quizSelect 'change' -> loadStatsForQuiz(quizId), up to its await.
StatsSwitch(quizId) ==
    /\ page = "stats"
    /\ quizId # currentQuizId
    /\ PendingTotal < MaxPending
    /\ currentQuizId' = quizId
    /\ lsCurrentQuizId' = quizId
    /\ pending' = [pending EXCEPT ![quizId] = @ + 1]
    /\ lastOp' = "statsSwitch"
    /\ UNCHANGED <<page, allQuestions, userStats, sessionStats, lastQuestionId,
                   localStore, sessionStore, dom, bankOf, statsOf, answers, arg, res>>

\* loadStatsForQuiz resumed with an OK response.
StatsFetchOk(quizId) ==
    /\ page = "stats"
    /\ pending[quizId] > 0
    /\ pending' = [pending EXCEPT ![quizId] = @ - 1]
    /\ allQuestions' = Bank(quizId)
    /\ userStats' = loadData(localStore, currentQuizId)
    /\ dom' = [dom EXCEPT !.tbody = "table"]
    /\ lastOp' = "statsFetchOk"
    /\ bankOf' = quizId
    /\ statsOf' = currentQuizId
    /\ UNCHANGED <<page, currentQuizId, lsCurrentQuizId, sessionStats,
                   lastQuestionId, localStore, sessionStore, answers, arg, res>>

\* loadStatsForQuiz resumed with a failure: its catch block.
StatsFetchFail(quizId) ==
    /\ page = "stats"
    /\ pending[quizId] > 0
    /\ pending' = [pending EXCEPT ![quizId] = @ - 1]
    /\ dom' = [dom EXCEPT !.tbody = "error"]
    /\ lastOp' = "statsFetchFail"
    /\ UNCHANGED <<page, currentQuizId, lsCurrentQuizId, allQuestions, userStats,
                   sessionStats, lastQuestionId, localStore, sessionStore,
                   bankOf, statsOf, answers, arg, res>>

Next ==
    \/ \E x \in QuizIds : SwitchQuiz(x)
    \/ \E x \in QuizIds : FetchOk(x)
    \/ \E x \in QuizIds : FetchFail(x)
    \/ SubmitNoSelection
    \/ \E b \in BOOLEAN : SubmitAnswer(b)
    \/ ClickNext
    \/ ResetDecline
    \/ ResetConfirm
    \/ OpenQuizPage
    \/ OpenStatsPage
    \/ \E x \in QuizIds : StatsSwitch(x)
    \/ \E x \in QuizIds : StatsFetchOk(x)
    \/ \E x \in QuizIds : StatsFetchFail(x)

Spec == Init /\ [][Next]_vars


\* -------------------------------------------------------- calculateAccuracy
\* Math.round((correct / total) * 100) on IEEE-754 doubles.  A double is
\* [m, e]: m its 53 significant bits, the first one set, as a sequence of a
\* 1-bit limb followed by Limbs limbs of LimbBits bits, read as an integer;
\* the value is m * 2^(-e).
LimbBits == 13
Limbs == 4
LimbBase == Pow(2, LimbBits)
Significand == 1 + Limbs * LimbBits

\* The next n base-LimbBase digits of r / t (0 <= r < t), and the remainder.
RECURSIVE DivLimbs(_, _, _, _)
DivLimbs(r, t, n, acc) ==
    IF n = 0 THEN [limbs |-> acc, rem |-> r]
    ELSE DivLimbs((r * LimbBase) % t, t, n - 1, Append(acc, (r * LimbBase) \div t))

\* m + 1; carry: the result is 2^Significand, given as 2^(Significand - 1).
IncLimbs(m) ==
    LET room == {j \in 2..Len(m) : m[j] < LimbBase - 1}
        z == CHOOSE j \in room : \A o \in room : o <= j
    IN  IF room = {}
        THEN [m |-> [j \in 1..Len(m) |-> IF j = 1 THEN 1 ELSE 0], carry |-> TRUE]
        ELSE [m |-> [j \in 1..Len(m) |-> IF j < z THEN m[j]
                                         ELSE IF j = z THEN m[j] + 1 ELSE 0],
              carry |-> FALSE]

\* Round to nearest, ties to even: guard is the first dropped bit, sticky
\* says whether anything non-zero follows it.
RoundNearestEven(m, guard, sticky) ==
    IF guard = 1 /\ (sticky \/ m[Len(m)] % 2 = 1) THEN IncLimbs(m)
    ELSE [m |-> m, carry |-> FALSE]

\* correct / total for 0 < correct < total: correct is doubled k times to
\* reach total, which puts the first significant bit in the 1-bit limb.
fdiv(c, t) ==
    LET k == CHOOSE i \in 1..LimbBits :
                 c * Pow(2, i) >= t /\ c * Pow(2, i - 1) < t
        a == c * Pow(2, k)
        d == DivLimbs(a % t, t, Limbs, <<>>)
        guard == IF 2 * d.rem >= t THEN 1 ELSE 0
        sticky == (2 * d.rem - guard * t) # 0
        r == RoundNearestEven(<<a \div t>> \o d.limbs, guard, sticky)
    IN  [m |-> r.m,
         e |-> IF r.carry THEN Significand - 2 + k ELSE Significand - 1 + k]

\* The exact product of the limbs and a small number; the first limb of the
\* result takes the whole carry.
RECURSIVE MulLimbs(_, _, _, _, _)
MulLimbs(m, by, i, carry, acc) ==
    IF i = 1 THEN <<m[1] * by + carry>> \o acc
    ELSE LET d == m[i] * by + carry
         IN  MulLimbs(m, by, i - 1, d \div LimbBase, <<d % LimbBase>> \o acc)

\* f * 100: the product has drop bits more than a significand holds.
fmul100(f) ==
    LET p == MulLimbs(f.m, 100, Len(f.m), 0, <<>>)
        drop == CHOOSE d \in 1..LimbBits : Pow(2, d) <= p[1] /\ p[1] < Pow(2, d + 1)
        D == Pow(2, drop)
        kept == [j \in 1..Len(p) |->
                    IF j = 1 THEN p[1] \div D
                    ELSE (p[j - 1] % D) * (LimbBase \div D) + p[j] \div D]
        guard == (p[Len(p)] \div (D \div 2)) % 2
        sticky == (p[Len(p)] % (D \div 2)) # 0
        r == RoundNearestEven(kept, guard, sticky)
    IN  [m |-> r.m, e |-> IF r.carry THEN f.e - drop - 1 ELSE f.e - drop]

\* Math.round(f) for 0 < f < 2^LimbBits: floor(f + 0.5).
MathRound(f) ==
    LET intBits == Significand - f.e
        below == LimbBits - (intBits - 1)
    IN  IF intBits < 0 THEN 0
        ELSE IF intBits = 0 THEN 1
        ELSE f.m[1] * Pow(2, intBits - 1) + f.m[2] \div Pow(2, below)
                + ((f.m[2] \div Pow(2, below - 1)) % 2)

\* Math.round((correct / total) * 100); 0 / total is 0 and total / total is 1.
percentage(correct, total) ==
    IF correct = 0 THEN 0
    ELSE IF correct = total THEN 100
    ELSE MathRound(fmul100(fdiv(correct, total)))

\* calculateAccuracy(history), the same function on both pages.
calculateAccuracy(h) ==
    IF Len(h) = 0 THEN [correct |-> 0, total |-> 0, percentage |-> 0]
    ELSE [correct |-> Cardinality({i \in 1..Len(h) : h[i]}),
          total |-> Len(h),
          percentage |-> percentage(Cardinality({i \in 1..Len(h) : h[i]}), Len(h))]

\* ------------------------------------------------------------ topic tree
\* A topic string is a sequence of tokens: a word, a blank, or a separator
\* matched by TOPIC_SEPARATORS.
Blank == " "
Separator == "-"
\* /\s*\|\s*|\s*-\s*|\s*(en dash)\s*|;\s*|:\s*|\/|\s*>\s*/
Separators == {"|", Separator, "endash", ";", ":", "/", ">"}
\* A list entry that is not a string (typeof entry !== 'string').
NonString == <<"#notastring">>
\* Property names every object inherits from Object.prototype, among them.
Inherited == {"constructor"}
\* The path ['General'] given to a question without a usable topic.
General == << <<"General">> >>

\* String.prototype.trim
trim(t) ==
    LET inked == {i \in 1..Len(t) : t[i] # Blank}
    IN  IF inked = {} THEN <<>>
        ELSE SubSeq(t, CHOOSE i \in inked : \A j \in inked : i <= j,
                       CHOOSE i \in inked : \A j \in inked : j <= i)

\* t.split(TOPIC_SEPARATORS): the pieces between separators, empty ones
\* included; the blanks a separator swallows are those trim removes.
RECURSIVE splitFrom(_, _, _, _)
splitFrom(t, i, cur, acc) ==
    IF i > Len(t) THEN Append(acc, cur)
    ELSE IF t[i] \in Separators THEN splitFrom(t, i + 1, <<>>, Append(acc, cur))
    ELSE splitFrom(t, i + 1, Append(cur, t[i]), acc)

\* A variant without the filter(Boolean) that drops the empty pieces.
segmentsOfNoFilter(t) ==
    LET parts == splitFrom(t, 1, <<>>, <<>>)
    IN  [i \in 1..Len(parts) |-> trim(parts[i])]
\* .split(TOPIC_SEPARATORS).map(part => part.trim()).filter(Boolean)
segmentsOf(t) ==
    LET parts == splitFrom(t, 1, <<>>, <<>>)
        trimmed == [i \in 1..Len(parts) |-> trim(parts[i])]
        nonEmpty(x) == x # <<>>
    IN  SelectSeq(trimmed, nonEmpty)

\* normalizeTopicPaths(rawTopic); rawTopic is [kind |-> "string", val |-> t],
\* [kind |-> "list", val |-> <<t1, ...>>] or, for an absent topic or one
\* of another type, [kind |-> "none", val |-> <<>>].
RECURSIVE normalizeList(_, _, _)
normalizeList(entries, i, normalized) ==
    IF i > Len(entries) THEN normalized
    ELSE IF entries[i] = NonString \/ trim(entries[i]) = <<>>
               \/ segmentsOf(trim(entries[i])) = <<>>
         THEN normalizeList(entries, i + 1, normalized)
         ELSE normalizeList(entries, i + 1, Append(normalized, segmentsOf(trim(entries[i]))))

normalizeTopicPaths(rawTopic) ==
    LET normalized ==
            IF rawTopic.kind = "list" THEN normalizeList(rawTopic.val, 1, <<>>)
            ELSE IF rawTopic.kind = "string" /\ trim(rawTopic.val) # <<>>
                      /\ segmentsOf(rawTopic.val) # <<>>
                 THEN <<segmentsOf(rawTopic.val)>>
                 ELSE <<>>
    IN  IF Len(normalized) > 0 THEN normalized ELSE <<General>>

\* path.join('|||')
RECURSIVE joinPath(_)
joinPath(path) ==
    IF Len(path) = 0 THEN <<>>
    ELSE IF Len(path) = 1 THEN path[1]
    ELSE path[1] \o <<"|||">> \o joinPath(Tail(path))

\* The tree is [nodes, thrown]: nodes maps the path of names from the root
\* to a node (<<>> is the root, 'All Topics') to that node's history;
\* thrown says a TypeError left buildTopicTree.
\* order lists the nodes below the root as they were created, which is the
\* order in which for...in visits the children of a node.
EmptyTree == [nodes |-> (<<>> :> <<>>), thrown |-> FALSE, order |-> <<>>]

\* path.forEach(part => ...): create the child if children[part] is falsy,
\* step into it, push the history.  For an inherited name that is not an
\* own child, children[part] is truthy and has no history array, so the
\* push throws.
RECURSIVE walkPath(_, _, _, _)
walkPath(tree, path, i, history) ==
    IF tree.thrown \/ i > Len(path) THEN tree
    ELSE LET at == SubSeq(path, 1, i)
             own == at \in DOMAIN tree.nodes
         IN  IF ~own /\ \E w \in Inherited : path[i] = <<w>>
             THEN [tree EXCEPT !.thrown = TRUE]
             ELSE walkPath([tree EXCEPT !.nodes =
                               IF own THEN [tree.nodes EXCEPT ![at] = @ \o history]
                               ELSE tree.nodes @@ (at :> history),
                                        !.order = IF own THEN @ ELSE Append(@, at)],
                           path, i + 1, history)

\* topicPaths.forEach(path => ...) with the seenPaths set of joined keys.
RECURSIVE walkPaths(_, _, _, _, _)
walkPaths(tree, paths, i, seenPaths, history) ==
    IF tree.thrown \/ i > Len(paths) THEN tree
    ELSE IF joinPath(paths[i]) \in seenPaths
         THEN walkPaths(tree, paths, i + 1, seenPaths, history)
         ELSE walkPaths(walkPath(tree, paths[i], 1, history), paths, i + 1,
                        seenPaths \cup {joinPath(paths[i])}, history)

\* questions.forEach(q => ...)
RECURSIVE addQuestions(_, _, _, _)
addQuestions(tree, questions, stats, i) ==
    IF tree.thrown \/ i > Len(questions) THEN tree
    ELSE LET history == HistoryOf(stats, questions[i].id)
         IN  IF Len(history) = 0 THEN addQuestions(tree, questions, stats, i + 1)
             ELSE LET walked == walkPaths(tree, normalizeTopicPaths(questions[i].topic),
                                          1, {}, history)
                      rooted == IF walked.thrown THEN walked
                                ELSE [walked EXCEPT !.nodes[<<>>] = @ \o history]
                  IN  addQuestions(rooted, questions, stats, i + 1)

buildTopicTree(questions, stats) == addQuestions(EmptyTree, questions, stats, 1)

\* node.name: 'All Topics' for the root, else the last segment of the path.
nodeName(node) == IF node = <<>> THEN <<"All Topics">> ELSE node[Len(node)]
\* The children of a node in for...in order.
childrenOf(tree, node) ==
    LET isChild(p) == Len(p) = Len(node) + 1 /\ SubSeq(p, 1, Len(node)) = node
    IN  SelectSeq(tree.order, isChild)

\* A variant of the loop over the children that lets a later node of equal
\* accuracy replace the one found first.
RECURSIVE findWeakestTopicLastTie(_, _)
findWeakestTopicLastTie(tree, node) ==
    LET own == IF Len(tree.nodes[node]) > 0
               THEN [name |-> nodeName(node),
                     accuracy |-> calculateAccuracy(tree.nodes[node]).percentage]
               ELSE [name |-> <<"N/A">>, accuracy |-> 101]
        kids == childrenOf(tree, node)
        scan[i \in 0..Len(kids)] ==
            IF i = 0 THEN own
            ELSE LET childWeakest == findWeakestTopicLastTie(tree, kids[i])
                 IN  IF childWeakest.accuracy <= scan[i - 1].accuracy
                     THEN childWeakest ELSE scan[i - 1]
    IN  scan[Len(kids)]

\* findWeakestTopic(node)
RECURSIVE findWeakestTopic(_, _)
findWeakestTopic(tree, node) ==
    LET start == [name |-> <<"N/A">>, accuracy |-> 101]
        accuracy == calculateAccuracy(tree.nodes[node]).percentage
        own == IF Len(tree.nodes[node]) > 0 /\ accuracy < start.accuracy
               THEN [name |-> nodeName(node), accuracy |-> accuracy]
               ELSE start
        kids == childrenOf(tree, node)
        scan[i \in 0..Len(kids)] ==
            IF i = 0 THEN own
            ELSE LET childWeakest == findWeakestTopic(tree, kids[i])
                 IN  IF childWeakest.accuracy < scan[i - 1].accuracy
                     THEN childWeakest ELSE scan[i - 1]
    IN  scan[Len(kids)]

\* ------------------------------------------------------------ renderMastery
\* history.slice(-n): the last n entries, or all of them when there are fewer.
slice(h, n) == SubSeq(h, IF Len(h) > n THEN Len(h) - n + 1 ELSE 1, Len(h))
\* history.filter(Boolean).length
correctCount(h) == Cardinality({i \in 1..Len(h) : h[i]})

\* Variants of the forEach body: one without the early return for an empty
\* history, one without the neverCorrect test.
masteryBucketNoSkip(h) ==
    IF Len(slice(h, MASTERED_STREAK)) = MASTERED_STREAK
          /\ \A i \in 1..MASTERED_STREAK : slice(h, MASTERED_STREAK)[i]
    THEN "mastered"
    ELSE IF correctCount(h) = 0 THEN "critical"
    ELSE IF correctCount(h) * ThresholdDen >= ThresholdNum * Len(h) THEN "mostlyCorrect"
    ELSE "mostlyIncorrect"
masteryBucketNoNever(h) ==
    IF Len(h) = 0 THEN "unattempted"
    ELSE IF Len(slice(h, MASTERED_STREAK)) = MASTERED_STREAK
              /\ \A i \in 1..MASTERED_STREAK : slice(h, MASTERED_STREAK)[i]
    THEN "mastered"
    ELSE IF Len(slice(h, CRITICAL_STREAK)) = CRITICAL_STREAK
              /\ \A i \in 1..CRITICAL_STREAK : ~slice(h, CRITICAL_STREAK)[i]
    THEN "critical"
    ELSE IF correctCount(h) * ThresholdDen >= ThresholdNum * Len(h) THEN "mostlyCorrect"
    ELSE "mostlyIncorrect"

\* The body of allQuestions.forEach in renderMastery: the counter of the
\* summary that a question with history h increments ("unattempted": none).
masteryBucket(h) ==
    LET recentWindow == slice(h, MASTERED_STREAK)
        mastered == Len(recentWindow) = MASTERED_STREAK
                       /\ \A i \in 1..Len(recentWindow) : recentWindow[i]
        criticalWindow == slice(h, CRITICAL_STREAK)
        consecutiveMisses == Len(criticalWindow) = CRITICAL_STREAK
                                /\ \A i \in 1..Len(criticalWindow) : ~criticalWindow[i]
        neverCorrect == correctCount(h) = 0
    IN  IF Len(h) = 0 THEN "unattempted"
        ELSE IF mastered THEN "mastered"
        ELSE IF consecutiveMisses \/ neverCorrect THEN "critical"
        ELSE IF correctCount(h) * ThresholdDen >= ThresholdNum * Len(h)
             THEN "mostlyCorrect"
             ELSE "mostlyIncorrect"

\* The summary renderMastery computes, the reconciliation of
\* mostlyIncorrect after the loop included.
renderMastery(bank, stats) ==
    LET count(b) == Cardinality({i \in 1..Len(bank) :
                                    masteryBucket(HistoryOf(stats, bank[i])) = b})
        attempted == Len(bank) - count("unattempted")
        categorizedSum == count("mastered") + count("mostlyCorrect")
                             + count("mostlyIncorrect") + count("critical")
        rest == attempted - count("mastered") - count("mostlyCorrect") - count("critical")
    IN  [total |-> Len(bank),
         attempted |-> attempted,
         mastered |-> count("mastered"),
         mostlyCorrect |-> count("mostlyCorrect"),
         mostlyIncorrect |-> IF categorizedSum # attempted
                             THEN (IF rest > 0 THEN rest ELSE 0)
                             ELSE count("mostlyIncorrect"),
         critical |-> count("critical")]

\* The number renderMastery writes in front of "% - n/total attempted":
\* Math.round(coverageRatio * 100) with
\* coverageRatio = attempted ? (mastered + mostlyCorrect) / attempted : 0.
coveragePercent(summary) ==
    LET attempted == summary.attempted
    IN  IF attempted = 0 THEN 0
        ELSE percentage(summary.mastered + summary.mostlyCorrect, attempted)

\* ------------------------------------------- selectNextQuestion on its own
\* The selector applied once to a bank, histories and lastQuestionId drawn
\* from bounded sets; the page itself stays as first loaded.
SelIds == <<"q1", "q2", "q3">>
ProgIdle ==
    /\ page = "quiz"
    /\ currentQuizId = DefaultQuiz
    /\ lsCurrentQuizId = DefaultQuiz
    /\ allQuestions = <<>>
    /\ userStats = EmptyStats
    /\ sessionStats = <<>>
    /\ lastQuestionId = Null
    /\ localStore = [x \in QuizIds |-> Absent]
    /\ sessionStore = [x \in QuizIds |-> Absent]
    /\ pending = [x \in QuizIds |-> IF x = DefaultQuiz THEN 1 ELSE 0]
    /\ dom = InitDom
    /\ lastOp = "init"
    /\ bankOf = Null
    /\ statsOf = Null
    /\ answers = 0

InitSel ==
    /\ ProgIdle
    /\ \E n \in 0..Len(SelIds) :
          LET bank == SubSeq(SelIds, 1, n)
          IN  \E st \in [Range(bank) -> Histories(MaxHist)] :
                  \E l \in Range(bank) \cup {Null} :
                      arg = [bank |-> bank, stats |-> st, last |-> l]
    /\ res = "pending"

SelectCall ==
    /\ res = "pending"
    /\ res' \in selectNextQuestion(arg.bank, arg.stats, arg.last)
    /\ UNCHANGED <<arg, progVars>>

NextSel == SelectCall

SpecSel == InitSel /\ [][NextSel]_vars

\* ------------------------------------------------- one quiz, answered on
\* The quiz page after loadQuiz has loaded a quiz of 1 to 3 questions for
\* which nothing is stored and has shown its first question; from there
\* only the check button is used: answers (up to MaxRunAnswers, up to
\* MaxRunHist per question) and "Next Question".
InitRun ==
    /\ page = "quiz"
    /\ currentQuizId = DefaultQuiz
    /\ lsCurrentQuizId = DefaultQuiz
    /\ \E n \in 1..Len(SelIds) :
          /\ allQuestions = SubSeq(SelIds, 1, n)
          /\ userStats = [q \in Range(SubSeq(SelIds, 1, n)) |-> <<>>]
    /\ sessionStats = <<>>
    /\ \E r \in selectNextQuestion(allQuestions, userStats, Null) :
          /\ lastQuestionId = r
          /\ dom = renderQuestion(InitDom, r)
    /\ localStore = [x \in QuizIds |-> Absent]
    /\ sessionStore = [x \in QuizIds |-> Absent]
    /\ pending = [x \in QuizIds |-> 0]
    /\ lastOp = "fetchOk"
    /\ bankOf = DefaultQuiz
    /\ statsOf = DefaultQuiz
    /\ answers = 0
    /\ arg = Null
    /\ res = Null

RunAnswer(isCorrect) == SubmitAnswerWithin(isCorrect, MaxRunHist, MaxRunAnswers)

NextRun ==
    \/ \E b \in BOOLEAN : RunAnswer(b)
    \/ ClickNext

SpecRun == InitRun /\ [][NextRun]_vars

\* ------------------------------------------------ renderMastery on its own
\* The summary computed once for a bank and histories drawn from bounded
\* sets; res.sel is what selectNextQuestion excludes as mastered for them.
InitMastery ==
    /\ ProgIdle
    /\ \E n \in 0..MaxBank :
          LET bank == SubSeq(SelIds, 1, n)
          IN  \E st \in [Range(bank) -> Histories(MaxLen)] :
                  arg = [bank |-> bank, stats |-> st]
    /\ res = [fn |-> "none"]

MasteryCall ==
    /\ res.fn = "none"
    /\ res' = [fn |-> "renderMastery",
               summary |-> renderMastery(arg.bank, arg.stats),
               sel |-> masteredQuestions(arg.bank, arg.stats)]
    /\ UNCHANGED <<arg, progVars>>

NextMastery == MasteryCall

SpecMastery == InitMastery /\ [][NextMastery]_vars

\* ------------------------------------- functions of one history on their own
\* calculateAccuracy, and the score loop of selectNextQuestion, applied once
\* to a history: every history up to MaxLen, and the longer ones that are a
\* run of trues followed by a run of falses, up to MaxTotal entries.
RunHistory(c, t) == [i \in 1..t |-> i <= c]

InitHist ==
    /\ ProgIdle
    /\ \/ \E h \in Histories(MaxLen) : arg = [history |-> h]
       \/ \E t \in (MaxLen + 1)..MaxTotal : \E c \in 0..t :
              arg = [history |-> RunHistory(c, t)]
    /\ res = [fn |-> "none"]

AccuracyCall ==
    /\ res.fn = "none"
    /\ res' = [fn |-> "calculateAccuracy", val |-> calculateAccuracy(arg.history)]
    /\ UNCHANGED <<arg, progVars>>

\* The score of the history as it is, and after one more answer.
ScoreCall ==
    /\ res.fn = "none"
    /\ Len(arg.history) <= MaxHist
    /\ res' = [fn |-> "score",
               base |-> Score(arg.history),
               ifTrue |-> Score(Append(arg.history, TRUE)),
               ifFalse |-> Score(Append(arg.history, FALSE))]
    /\ UNCHANGED <<arg, progVars>>

NextHist == AccuracyCall \/ ScoreCall

SpecHist == InitHist /\ [][NextHist]_vars

\* ------------------------------------------------ buildTopicTree on its own
\* The raw topic fields tried: one path, two paths sharing their first
\* segment, the same path written twice, a path and its own prefix, a
\* single segment, no topic, and a segment named like an inherited property.
TopicInputs ==
    { [kind |-> "string", val |-> <<"Algebra", Blank, Separator, Blank, "Linear", Blank, "Equations">>],
      [kind |-> "list", val |-> << <<"Algebra", Separator, "Linear">>,
                                   <<"Algebra", Separator, "Quadratic">> >>],
      [kind |-> "list", val |-> << <<"Algebra", Separator, "Linear">>,
                                   <<Blank, "Algebra", Blank, Separator, "Linear">> >>],
      [kind |-> "list", val |-> << <<"Algebra">>, <<"Algebra", Separator, "Linear">> >>],
      [kind |-> "string", val |-> <<"Algebra">>],
      [kind |-> "none", val |-> <<>>],
      [kind |-> "string", val |-> <<"OOP", Separator, "constructor">>] }

InitTree ==
    /\ ProgIdle
    /\ \E n \in 1..MaxBank :
          \E tp \in [1..n -> TopicInputs] :
              \E st \in [Range(SubSeq(SelIds, 1, n)) -> Histories(MaxTreeHist)] :
                  arg = [questions |-> [i \in 1..n |-> [id |-> SelIds[i], topic |-> tp[i]]],
                         stats |-> st]
    /\ res = [fn |-> "none"]

TreeCall ==
    /\ res.fn = "none"
    /\ res' = [fn |-> "buildTopicTree", tree |-> buildTopicTree(arg.questions, arg.stats)]
    /\ UNCHANGED <<arg, progVars>>

NextTree == TreeCall

SpecTree == InitTree /\ [][NextTree]_vars

\* ---------------------------------------------- findWeakestTopic on its own
\* The weakest topic of the tree that loadStatsForQuiz builds from a bank
\* and histories: topics in one or two branches, histories with accuracies
\* of 0, 40, 50 and 90 percent or empty.
WeakTopics ==
    { [kind |-> "string", val |-> <<"MathTopic">>],
      [kind |-> "string", val |-> <<"ScienceTopic">>],
      [kind |-> "string", val |-> <<"MathTopic", Separator, "Algebra">>],
      [kind |-> "list", val |-> << <<"ScienceTopic">>, <<"MathTopic">> >>],
      [kind |-> "none", val |-> <<>>] }
WeakHistories ==
    { <<>>, RunHistory(0, 1), RunHistory(1, 2), RunHistory(2, 5), RunHistory(9, 10) }

InitWeak ==
    /\ ProgIdle
    /\ \E n \in 1..MaxBank :
          \E tp \in [1..n -> WeakTopics] :
              \E st \in [Range(SubSeq(SelIds, 1, n)) -> WeakHistories] :
                  arg = [questions |-> [i \in 1..n |-> [id |-> SelIds[i], topic |-> tp[i]]],
                         stats |-> st]
    /\ res = [fn |-> "none"]

WeakestCall ==
    /\ res.fn = "none"
    /\ LET topicTree == buildTopicTree(arg.questions, arg.stats)
       IN  res' = [fn |-> "findWeakestTopic", tree |-> topicTree,
                   weakest |-> findWeakestTopic(topicTree, <<>>)]
    /\ UNCHANGED <<arg, progVars>>

NextWeak == WeakestCall

SpecWeak == InitWeak /\ [][NextWeak]_vars

\* ------------------------------------- the coverage percentage on its own
\* renderMastery applied once to a bank of up to MaxCover questions "1",
\* "2", ...: the first good of them alternately mastered and mostly
\* correct, then bad ones mostly incorrect, the remaining ones unattempted
\* or, in banks of up to two questions, any histories up to MaxHist.
CoverIds(n) == [i \in 1..n |-> ToString(i)]
CoverStats(n, good, bad) ==
    [q \in Range(CoverIds(n)) |->
        LET i == CHOOSE j \in 1..n : ToString(j) = q
        IN  IF i <= good THEN (IF i % 2 = 1 THEN <<TRUE, TRUE, TRUE>> ELSE <<TRUE>>)
            ELSE IF i <= good + bad THEN <<TRUE, FALSE, FALSE>>
            ELSE <<>>]

InitCover ==
    /\ ProgIdle
    /\ \/ \E n \in 0..MaxCover : \E good \in 0..n : \E bad \in 0..(n - good) :
              /\ n - good - bad <= 1
              /\ arg = [bank |-> CoverIds(n), stats |-> CoverStats(n, good, bad)]
       \/ \E n \in 1..2 : \E st \in [Range(CoverIds(n)) -> Histories(MaxHist)] :
              arg = [bank |-> CoverIds(n), stats |-> st]
       \/ \E n \in 1..MaxCover :
              arg = [bank |-> CoverIds(n),
                     stats |-> [q \in Range(CoverIds(n)) |-> <<TRUE, TRUE, TRUE>>]]
    /\ res = [fn |-> "none"]

CoverageCall ==
    /\ res.fn = "none"
    /\ LET summary == renderMastery(arg.bank, arg.stats)
       IN  res' = [fn |-> "coverage", summary |-> summary,
                   coveragePercent |-> coveragePercent(summary),
                   sel |-> selectNextQuestion(arg.bank, arg.stats, Null)]
    /\ UNCHANGED <<arg, progVars>>

NextCover == CoverageCall

SpecCover == InitCover /\ [][NextCover]_vars

\* ------------------------------------------ calculateImprovement on its own
\* const half = Math.ceil(history.length / 2)
half(history) == (Len(history) + 1) \div 2
\* history.slice(0, half)
firstHalf(history) == SubSeq(history, 1, half(history))
\* history.slice(-half)
secondHalf(history) ==
    SubSeq(history, Len(history) - half(history) + 1, Len(history))
\* The text is the class of the span ("N/A" and "Stable" have none).
calculateImprovement(history) ==
    IF Len(history) < 4 THEN [text |-> "N/A", value |-> 0]
    ELSE LET firstHalfAccuracy == calculateAccuracy(firstHalf(history)).percentage
             secondHalfAccuracy == calculateAccuracy(secondHalf(history)).percentage
             improvement == secondHalfAccuracy - firstHalfAccuracy
         IN  IF improvement > 0 THEN [text |-> "improving", value |-> improvement]
             ELSE IF improvement < 0 THEN [text |-> "declining", value |-> improvement]
             ELSE [text |-> "Stable", value |-> 0]

InitImp ==
    /\ ProgIdle
    /\ \E h \in Histories(MaxTrend) : arg = [history |-> h]
    /\ res = [fn |-> "none"]

ImprovementCall ==
    /\ res.fn = "none"
    /\ res' = [fn |-> "calculateImprovement", trend |-> calculateImprovement(arg.history)]
    /\ UNCHANGED <<arg, progVars>>

NextImp == ImprovementCall

SpecImp == InitImp /\ [][NextImp]_vars

\* ------------------------------------------- normalizeTopicPaths on its own
\* Topic strings of up to MaxTokens tokens over two words, the blank and
\* three of the separators, lists of up to two short entries, an absent
\* topic, and the string 'Algebra - Linear Equations'.
TopicTokens == {"Algebra", "Linear", Blank, Separator, ":", ">"}
TopicStrings(n) == UNION {[1..k -> TopicTokens] : k \in 0..n}
AlgebraLinearEquations ==
    <<"Algebra", Blank, Separator, Blank, "Linear", Blank, "Equations">>

InitNorm ==
    /\ ProgIdle
    /\ \/ \E t \in TopicStrings(MaxTokens) : arg = [topic |-> [kind |-> "string", val |-> t]]
       \/ \E n \in 0..2 : \E es \in [1..n -> TopicStrings(2) \cup {NonString}] :
              arg = [topic |-> [kind |-> "list", val |-> es]]
       \/ arg = [topic |-> [kind |-> "none", val |-> <<>>]]
       \/ arg = [topic |-> [kind |-> "string", val |-> AlgebraLinearEquations]]
       \/ arg = [topic |-> [kind |-> "list",
                            val |-> <<AlgebraLinearEquations, <<"|", "/", ";", "endash">> >>]]
    /\ res = [fn |-> "none"]

NormalizeCall ==
    /\ res.fn = "none"
    /\ res' = [fn |-> "normalizeTopicPaths", paths |-> normalizeTopicPaths(arg.topic)]
    /\ UNCHANGED <<arg, progVars>>

NextNorm == NormalizeCall

SpecNorm == InitNorm /\ [][NextNorm]_vars

\* ------------------------------------------------------------------ claims
\* The Mastered predicate as the specification words it: at least three
\* entries, and the last three all true.
LastThreeTrue(h) ==
    /\ Len(h) >= 3
    /\ h[Len(h)] /\ h[Len(h) - 1] /\ h[Len(h) - 2]

SelReturned == res # "pending"
SelAllMastered == \A q \in Range(arg.bank) : LastThreeTrue(arg.stats[q])

\* C1 (as claimed): selectNextQuestion returns Complete (null) if and only
\* if the bank is non-empty and every question in it is mastered.
C1_CompleteIffNonEmptyAllMastered ==
    SelReturned => ((res = Null) <=> (Len(arg.bank) > 0 /\ SelAllMastered))

\* C1 (amended): selectNextQuestion returns null if and only if every
\* question of the bank is mastered; the empty bank is such a bank, and for
\* it the result is always null.
C1_CompleteIffAllMastered ==
    SelReturned => ((res = Null) <=> SelAllMastered)

C1_Witness == res = Null /\ arg.bank = <<>>

\* C3: a returned question is unmastered and its weighted recency score is
\* the minimum over the candidate pool, and the possible results are exactly
\* the minimal-score candidates.
SelUnmastered == {q \in Range(arg.bank) : ~LastThreeTrue(arg.stats[q])}
SelPool == IF Cardinality(SelUnmastered) > 1 THEN SelUnmastered \ {arg.last}
           ELSE SelUnmastered
SelMinimal == {q \in SelPool : \A o \in SelPool : Score(arg.stats[q]) <= Score(arg.stats[o])}

C3_ReturnsExactlyTheMinimal ==
    (SelReturned /\ res # Null) =>
        /\ res \in SelUnmastered
        /\ res \in SelMinimal
        /\ selectNextQuestion(arg.bank, arg.stats, arg.last) = SelMinimal

C3_Witness ==
    /\ SelReturned /\ res # Null
    /\ Cardinality(SelMinimal) = 2
    /\ SelPool # SelMinimal

\* ---- claims about the running page
\* The operations that end by calling selectNextQuestion and rendering.
SelectOps == {"fetchOk", "next", "resetConfirm"}
Unmastered == {q \in Range(allQuestions) : ~LastThreeTrue(HistoryOf(userStats, q))}
StoredHistory(store, x, q) ==
    IF store[x].kind = "json" /\ q \in DOMAIN store[x].val THEN store[x].val[q] ELSE <<>>
IsPrefix(s, t) == Len(s) <= Len(t) /\ SubSeq(t, 1, Len(s)) = s

\* C2: when more than one unmastered question exists, a call to
\* selectNextQuestion never returns the id the previous call returned.
C2_NeverRepeatsPrevious ==
    [][(lastOp' \in SelectOps /\ ~dom'.completeVisible /\ Cardinality(Unmastered') > 1)
          => lastQuestionId' # lastQuestionId]_vars

C2_Witness ==
    /\ lastOp = "next"
    /\ ~dom.completeVisible
    /\ Cardinality(Unmastered) > 1
    /\ lastQuestionId # Null

\* C4 (as claimed): the lifetime storage of quiz X only ever holds answers to
\* questions of X's own bank; switching quizzes never writes one quiz's
\* answers into another quiz's storage.
C4_StorageHoldsOwnBankOnly ==
    \A x \in QuizIds : \A q \in AllQuestionIds :
        StoredHistory(localStore, x, q) # <<>> => q \in Range(Bank(x))

\* C5 (as claimed): whenever selectNextQuestion has just run, allQuestions is
\* the bank fetched for the current quiz and userStats was loaded from the
\* current quiz's storage key, whatever the interleaving of loadQuiz calls.
C5_SelectSeesCurrentQuiz ==
    lastOp \in SelectOps =>
        /\ bankOf = currentQuizId
        /\ statsOf = currentQuizId
        /\ allQuestions = Bank(currentQuizId)

\* C6 (as claimed): except by a confirmed reset, every stored lifetime
\* history only grows by appending: its earlier value is a prefix of its
\* later value.
C6_StoredHistoryOnlyAppends ==
    [][lastOp' # "resetConfirm" =>
          \A x \in QuizIds : \A q \in AllQuestionIds :
              IsPrefix(StoredHistory(localStore, x, q), StoredHistory(localStore', x, q))]_vars

\* C7: a confirmed reset removes the lifetime and session entries of the
\* active quiz only and leaves every other quiz's entries as they were; a
\* declined reset changes nothing.
C7_ResetTouchesActiveQuizOnly ==
    [][/\ lastOp' = "resetConfirm" =>
            \A x \in QuizIds :
                IF x = currentQuizId
                THEN localStore'[x] = Absent /\ sessionStore'[x] = Absent
                ELSE localStore'[x] = localStore[x] /\ sessionStore'[x] = sessionStore[x]
       /\ lastOp' = "resetDecline" =>
            UNCHANGED <<currentQuizId, lsCurrentQuizId, allQuestions, userStats,
                        sessionStats, lastQuestionId, localStore, sessionStore,
                        pending, dom>>]_vars

C7_Witness ==
    /\ lastOp = "resetConfirm"
    /\ \E x \in QuizIds \ {currentQuizId} : localStore[x].kind = "json"
    /\ localStore[currentQuizId] = Absent

AllHistoriesEmpty == \A q \in Range(allQuestions) : HistoryOf(userStats, q) = <<>>

\* C8 (as claimed): after a confirmed reset every history is empty and the
\* selector is back in its initial state, so the first selection after the
\* reset may return any question of the bank, the one served just before
\* the reset included.
C8_ResetRestoresInitialSelector ==
    [][lastOp' = "resetConfirm" =>
          /\ AllHistoriesEmpty'
          /\ selectNextQuestion(allQuestions', userStats', lastQuestionId)
                = Range(allQuestions')]_vars

\* C8 (amended): after a confirmed reset every history is empty, but
\* lastQuestionId is kept: the first selection after the reset returns any
\* question of the bank other than the one served just before the reset
\* (any question at all when the bank has a single question).
C8_ResetKeepsLastServed ==
    [][lastOp' = "resetConfirm" =>
          LET ids == Range(allQuestions')
              expected == IF Cardinality(ids) > 1 THEN ids \ {lastQuestionId} ELSE ids
          IN  /\ AllHistoriesEmpty'
              /\ sessionStats' = <<>>
              /\ lastQuestionId' \in expected
              /\ dom'.shown = lastQuestionId'
              /\ selectNextQuestion(allQuestions', userStats', lastQuestionId) = expected]_vars

C8_Witness ==
    /\ lastOp = "resetConfirm"
    /\ Len(allQuestions) > 1
    /\ AllHistoriesEmpty
    /\ dom.shown = lastQuestionId
    /\ lastQuestionId # Null

C11_FailedFetchKeepsOneQuiz ==
    [][(lastOp' \in {"fetchFail", "statsFetchFail"}
          /\ PendingTotal = 1 /\ bankOf # Null /\ statsOf = bankOf)
          => /\ currentQuizId' = bankOf'
             /\ lsCurrentQuizId' = bankOf'
             /\ statsOf' = bankOf']_vars

\* C12: submitting with no option selected changes nothing: histories,
\* session log, both storage areas and lastQuestionId are unchanged and the
\* same question stays displayed.
C12_EmptySubmitChangesNothing ==
    [][lastOp' = "submitEmpty" =>
          UNCHANGED <<userStats, sessionStats, localStore, sessionStore,
                      lastQuestionId, allQuestions, dom>>]_vars

C12_Witness ==
    /\ lastOp = "submitEmpty"
    /\ dom.shown = lastQuestionId
    /\ dom.shown \in Range(allQuestions)
    /\ dom.handlers = <<CheckHandler(dom.shown)>>

\* C13: wherever selectNextQuestion runs (after a load, after a reset,
\* after an answer), every question of the bank in memory has a statistics
\* record whose history is an array, possibly empty.
C13_EveryBankQuestionHasRecord ==
    lastOp \in SelectOps \cup {"answer"} =>
        \A q \in Range(allQuestions) :
            q \in DOMAIN userStats /\ userStats[q] \in Seq(BOOLEAN)

C13_Witness ==
    /\ lastOp = "fetchOk"
    /\ localStore[currentQuizId].kind = "json"
    /\ \E q \in Range(allQuestions) :
          /\ q \notin DOMAIN localStore[currentQuizId].val
          /\ q \in DOMAIN userStats
          /\ userStats[q] = <<>>

\* ---- claims about renderMastery
MasteryDone == res.fn = "renderMastery"
Attempted == {q \in Range(arg.bank) : arg.stats[q] # <<>>}
LastThreeFalse(h) ==
    /\ Len(h) >= 3
    /\ ~h[Len(h)] /\ ~h[Len(h) - 1] /\ ~h[Len(h) - 2]
NoTrueEntry(h) == \A i \in 1..Len(h) : ~h[i]

\* C14: the mastery summary puts each attempted question in exactly one of
\* the four buckets: mastered + mostlyCorrect + mostlyIncorrect + critical
\* equals the number of questions with a non-empty history, and unattempted
\* questions are in none of them.
C14_BucketsCountAttemptedOnce ==
    MasteryDone =>
        LET s == res.summary
        IN  /\ s.mastered + s.mostlyCorrect + s.mostlyIncorrect + s.critical
                  = Cardinality(Attempted)
            /\ s.attempted = Cardinality(Attempted)
            /\ s.total = Len(arg.bank)

C14_Witness ==
    /\ MasteryDone
    /\ Len(arg.bank) = 2
    /\ Cardinality(Attempted) = 1
    /\ res.summary.mostlyIncorrect = 1

\* C15: a question is classified Mastered exactly when its history has at
\* least three entries and the last three are all true, and the mastered
\* bucket holds exactly the questions the selector excludes as mastered.
C15_MasteredSameAsSelector ==
    MasteryDone =>
        LET m == {q \in Range(arg.bank) : LastThreeTrue(arg.stats[q])}
        IN  /\ res.summary.mastered = Cardinality(m)
            /\ res.sel = m

C15_Witness ==
    /\ MasteryDone
    /\ arg.bank = <<"q1", "q2">>
    /\ arg.stats["q1"] = <<TRUE, FALSE, TRUE, TRUE, TRUE>>
    /\ arg.stats["q2"] = <<TRUE, TRUE, FALSE>>
    /\ res.summary.mastered = 1
    /\ res.sel = {"q1"}

\* C16: an attempted question is classified Critical exactly when it is not
\* mastered and either its last three entries exist and are all false or it
\* has no true entry; a question with an empty history is neither critical
\* nor mastered.
C16_CriticalPredicate ==
    MasteryDone =>
        LET c == {q \in Attempted :
                     /\ ~LastThreeTrue(arg.stats[q])
                     /\ LastThreeFalse(arg.stats[q]) \/ NoTrueEntry(arg.stats[q])}
        IN  /\ res.summary.critical = Cardinality(c)
            /\ Attempted = {} => (res.summary.critical = 0 /\ res.summary.mastered = 0)

C16_Witness ==
    /\ MasteryDone
    /\ arg.bank = <<"q1", "q2">>
    /\ arg.stats["q1"] = <<TRUE, FALSE, FALSE, FALSE>>
    /\ arg.stats["q2"] = <<FALSE>>
    /\ res.summary.critical = 2

\* ---- claims about functions of one history
AccuracyDone == res.fn = "calculateAccuracy"
TrueCount(h) == Cardinality({i \in 1..Len(h) : h[i]})
\* n / d rounded to the nearest integer, halves upward.
RoundHalfUp(n, d) == (2 * n + d) \div (2 * d)

\* C17 (as claimed): for every boolean history calculateAccuracy returns
\* correct = number of true entries, total = length and percentage =
\* round(100 * correct / total), within 0..100; {0,0,0} for the empty history.
C17_AccuracyIsRoundedRatio ==
    AccuracyDone =>
        LET h == arg.history
        IN  IF h = <<>>
            THEN res.val = [correct |-> 0, total |-> 0, percentage |-> 0]
            ELSE /\ res.val.correct = TrueCount(h)
                 /\ res.val.total = Len(h)
                 /\ res.val.percentage \in 0..100
                 /\ res.val.percentage = RoundHalfUp(100 * TrueCount(h), Len(h))

ScoreDone == res.fn = "score"

\* C18: for every history h the weighted recency score of h with true
\* appended is strictly greater than that of h with false appended; the new
\* score is 0.9 * score(h) plus 1 or minus 1 (scores carry the factor
\* DecayDen^ScoreScale).
C18_TrueScoresAboveFalse ==
    ScoreDone =>
        /\ res.ifTrue > res.ifFalse
        /\ DecayDen * res.ifTrue = DecayNum * res.base + Pow(DecayDen, ScoreScale + 1)
        /\ DecayDen * res.ifFalse = DecayNum * res.base - Pow(DecayDen, ScoreScale + 1)

C18_Witness ==
    /\ ScoreDone
    /\ arg.history = <<FALSE, TRUE, FALSE>>
    /\ res.base < 0
    /\ res.ifTrue > 0
    /\ res.ifFalse < res.base

\* ---- claims about buildTopicTree
TreeDone == res.fn = "buildTopicTree"
Contains(big, small) ==
    \E off \in 0..(Len(big) - Len(small)) : SubSeq(big, off + 1, off + Len(small)) = small
\* The question's normalized paths that pass through the node.
PathsThrough(q, node) ==
    {p \in Range(normalizeTopicPaths(q.topic)) :
        Len(node) <= Len(p) /\ SubSeq(p, 1, Len(node)) = node}
\* The histories, in bank order and once each, of the attempted questions
\* from the i-th on that have a path through the node.
RECURSIVE OncePerQuestion(_, _)
OncePerQuestion(node, i) ==
    IF i > Len(arg.questions) THEN <<>>
    ELSE (IF PathsThrough(arg.questions[i], node) # {}
          THEN arg.stats[arg.questions[i].id] ELSE <<>>)
            \o OncePerQuestion(node, i + 1)

\* C19 (as claimed): for every question with a non-empty history and every
\* one of its normalized topic paths, buildTopicTree creates the nodes along
\* the path, and the question's full history appears in the history of
\* every node on the path and of the root.
C19_HistoryOnEveryNodeOfPath ==
    TreeDone =>
        /\ ~res.tree.thrown
        /\ \A i \in 1..Len(arg.questions) :
              LET q == arg.questions[i]
                  history == arg.stats[q.id]
              IN  history # <<>> =>
                     \A p \in Range(normalizeTopicPaths(q.topic)) :
                         \A k \in 0..Len(p) :
                             /\ SubSeq(p, 1, k) \in DOMAIN res.tree.nodes
                             /\ Contains(res.tree.nodes[SubSeq(p, 1, k)], history)

\* C20 (as claimed): every node's history in the tree, the root's included,
\* is the concatenation, exactly once per question, of the histories of the
\* attempted questions with a topic path through that node, also when a
\* question's topic strings are equal or share a leading segment.
C20_NodeCountsQuestionOnce ==
    (TreeDone /\ ~res.tree.thrown) =>
        \A node \in DOMAIN res.tree.nodes :
            res.tree.nodes[node] = OncePerQuestion(node, 1)

\* ---- claims about findWeakestTopic
WeakestDone == res.fn = "findWeakestTopic"
Percent(h) == RoundHalfUp(100 * TrueCount(h), Len(h))
WithHistory == {n \in DOMAIN res.tree.nodes : res.tree.nodes[n] # <<>>}
\* Position of a node below the root in creation order.
CreatedAt(n) == CHOOSE i \in 1..Len(res.tree.order) : res.tree.order[i] = n
\* a is visited before b in depth-first pre-order: a is an ancestor of b, or
\* where the two paths part, a's branch was created first.
Before(a, b) ==
    \/ Len(a) < Len(b) /\ SubSeq(b, 1, Len(a)) = a
    \/ \E i \in 1..Len(a) :
          /\ i <= Len(b)
          /\ SubSeq(a, 1, i - 1) = SubSeq(b, 1, i - 1)
          /\ a[i] # b[i]
          /\ CreatedAt(SubSeq(a, 1, i)) < CreatedAt(SubSeq(b, 1, i))

\* C21: findWeakestTopic returns the node with the lowest accuracy percentage
\* among the nodes with a non-empty history, the root included, and of the
\* nodes with that percentage the first in depth-first pre-order.
C21_WeakestIsFirstLowest ==
    (WeakestDone /\ WithHistory # {}) =>
        \E n \in WithHistory :
            /\ res.weakest = [name |-> nodeName(n), accuracy |-> Percent(res.tree.nodes[n])]
            /\ \A o \in WithHistory :
                  /\ Percent(res.tree.nodes[n]) <= Percent(res.tree.nodes[o])
                  /\ (o # n /\ Percent(res.tree.nodes[o]) = Percent(res.tree.nodes[n]))
                        => Before(n, o)

C21_Witness ==
    /\ WeakestDone
    /\ <<<<"MathTopic">>>> \in WithHistory
    /\ <<<<"ScienceTopic">>>> \in WithHistory
    /\ Percent(res.tree.nodes[<<<<"MathTopic">>>>]) = 40
    /\ Percent(res.tree.nodes[<<<<"ScienceTopic">>>>]) = 90
    /\ res.weakest = [name |-> <<"MathTopic">>, accuracy |-> 40]

\* ---- claims about normalizeTopicPaths
NormalizeDone == res.fn = "normalizeTopicPaths"
\* The pieces of t between separators: a piece starts after position a,
\* where a is 0 or the position of a separator.
PieceStarts(t) == {0} \cup {i \in 1..Len(t) : t[i] \in Separators}
PieceAfter(t, a) ==
    LET ends == {i \in (a + 1)..(Len(t) + 1) : i = Len(t) + 1 \/ t[i] \in Separators}
        b == CHOOSE i \in ends : \A j \in ends : i <= j
        inked == {i \in (a + 1)..(b - 1) : t[i] # Blank}
    IN  IF inked = {} THEN <<>>
        ELSE [k \in 1..Cardinality({i \in inked : TRUE} \cup
                     {i \in (a + 1)..(b - 1) : \E x \in inked : \E y \in inked : x <= i /\ i <= y})
                |-> t[(CHOOSE i \in inked : \A j \in inked : i <= j) + k - 1]]
\* The non-empty trimmed pieces of t, in order.
SegmentsExpected(t) ==
    LET starts == {a \in PieceStarts(t) : PieceAfter(t, a) # <<>>}
    IN  [k \in 1..Cardinality(starts) |->
            PieceAfter(t, CHOOSE a \in starts : Cardinality({x \in starts : x < a}) = k - 1)]
\* The strings of a raw topic that give a path, in order.
UsableStrings(topic) ==
    IF topic.kind = "string" THEN (IF SegmentsExpected(topic.val) # <<>> THEN <<topic.val>> ELSE <<>>)
    ELSE IF topic.kind = "list"
    THEN LET usable(e) == e # NonString /\ SegmentsExpected(e) # <<>>
         IN  SelectSeq(topic.val, usable)
    ELSE <<>>

\* C22: normalizeTopicPaths returns, for a string topic or each string of a
\* topic list, the ordered trimmed non-empty segments between separators;
\* for a topic that is absent, empty, not a string or made of separators
\* only it returns the single path [General]; it never returns an empty
\* list or an empty segment.
C22_NormalizedPaths ==
    NormalizeDone =>
        LET usable == UsableStrings(arg.topic)
        IN  /\ res.paths = IF usable = <<>> THEN << <<<<"General">>>> >>
                           ELSE [i \in 1..Len(usable) |-> SegmentsExpected(usable[i])]
            /\ Len(res.paths) > 0
            /\ \A i \in 1..Len(res.paths) :
                  /\ Len(res.paths[i]) > 0
                  /\ \A j \in 1..Len(res.paths[i]) :
                        /\ res.paths[i][j] # <<>>
                        /\ res.paths[i][j][1] # Blank
                        /\ res.paths[i][j][Len(res.paths[i][j])] # Blank
                        /\ \A k \in 1..Len(res.paths[i][j]) :
                              res.paths[i][j][k] \notin Separators

C22_Witness ==
    /\ NormalizeDone
    /\ arg.topic = [kind |-> "string", val |-> AlgebraLinearEquations]
    /\ res.paths = << << <<"Algebra">>, <<"Linear", Blank, "Equations">> >> >>

\* ---- claims about calculateImprovement
ImprovementDone == res.fn = "calculateImprovement"
\* The trend of comparing the last w entries of h with the w entries
\* immediately before them (h has at least 2 * w entries, w >= 1).
TrendOfWindows(h, w) ==
    LET recent == SubSeq(h, Len(h) - w + 1, Len(h))
        prior == SubSeq(h, Len(h) - 2 * w + 1, Len(h) - w)
        delta == Percent(recent) - Percent(prior)
    IN  [text |-> IF delta > 0 THEN "improving"
                  ELSE IF delta < 0 THEN "declining" ELSE "Stable",
         value |-> delta]

\* C23 (as claimed): for every history there is a window size w >= 1 such
\* that the trend is the comparison of the last w entries with the w
\* entries immediately preceding them, which share no entry, when the
\* history has at least 2 * w entries, and is the insufficient-data
\* value otherwise.
C23_DisjointEqualWindows ==
    ImprovementDone =>
        \E w \in 1..(Len(arg.history) + 1) :
            IF Len(arg.history) >= 2 * w
            THEN res.trend = TrendOfWindows(arg.history, w)
            ELSE res.trend = [text |-> "N/A", value |-> 0]

\* ---- claims about checkAnswer
\* C24: an accepted answer to the displayed question q appends exactly one
\* boolean to q's history and exactly one, the same, to the session log,
\* leaves every other history and lastQuestionId unchanged, and has written
\* the lifetime and the session value under the key of the active quiz
\* when the handler returns, so that both stored values equal the ones in
\* memory.
C24_AnswerAppendsOnceAndSaves ==
    [][lastOp' = "answer" =>
          /\ dom.shown \in DOMAIN userStats
          /\ DOMAIN userStats' = DOMAIN userStats
          /\ \E isCorrect \in BOOLEAN :
                /\ userStats'[dom.shown] = Append(userStats[dom.shown], isCorrect)
                /\ sessionStats' = Append(sessionStats, isCorrect)
          /\ \A q \in DOMAIN userStats : q # dom.shown => userStats'[q] = userStats[q]
          /\ lastQuestionId' = lastQuestionId
          /\ currentQuizId' = currentQuizId
          /\ localStore'[currentQuizId] = [kind |-> "json", val |-> userStats']
          /\ sessionStore'[currentQuizId] = [kind |-> "json", val |-> sessionStats']
          /\ \A x \in QuizIds \ {currentQuizId} :
                localStore'[x] = localStore[x] /\ sessionStore'[x] = sessionStore[x]]_vars

C24_Witness ==
    /\ lastOp = "answer"
    /\ dom.shown = "a1"
    /\ userStats = [q \in {"a1", "a2"} |-> IF q = "a1" THEN <<FALSE>> ELSE <<TRUE>>]
    /\ sessionStats = <<TRUE, FALSE>>
    /\ lastQuestionId = "a1"
    /\ localStore[currentQuizId] = [kind |-> "json", val |-> userStats]
    /\ sessionStore[currentQuizId] = [kind |-> "json", val |-> sessionStats]

\* ---- claims about the Complete state
\* The last renderQuestion got Complete (null) from selectNextQuestion for
\* the non-empty bank in memory.
CompleteReturned ==
    page = "quiz" /\ dom.completeVisible /\ allQuestions # <<>>
\* The steps that leave Complete: a confirmed reset, a quiz switch (the
\* change of the selector and the continuation of its loadQuiz), and
\* leaving or reloading the page.
LeavesComplete == {"resetConfirm", "switch", "fetchOk", "openQuiz", "openStats"}

CoverageDone == res.fn = "coverage"

\* C26 (as claimed): the displayed coverage percentage equals
\* round(100 * (mastered + mostlyCorrect) / attempted), is 0 when no
\* question is attempted, lies in 0..100, and is 100 whenever the selector
\* returns Complete for a non-empty bank.
C26_CoverageIsRoundedRatio ==
    CoverageDone =>
        LET s == res.summary
        IN  /\ res.coveragePercent \in 0..100
            /\ s.attempted = 0 => res.coveragePercent = 0
            /\ s.attempted > 0 =>
                  res.coveragePercent
                      = RoundHalfUp(100 * (s.mastered + s.mostlyCorrect), s.attempted)
            /\ (arg.bank # <<>> /\ res.sel = {Null}) => res.coveragePercent = 100

\* ---- claims about loadStats with an unparseable session value
\* C27 (as claimed): when the stored session value of the active quiz is
\* unparseable and the stored lifetime value is valid, loading keeps the
\* lifetime histories and only the session log falls back to empty: every
\* stored lifetime history is in memory after the load, and the next save
\* of statistics loaded under that key leaves every stored history a
\* prefix of what it writes.
C27_CorruptSessionKeepsLifetime ==
    [][LET key == getStorageKey(currentQuizId)
           stored == localStore[key].val
       IN  /\ (lastOp' = "fetchOk" /\ Throws(sessionStore[key])
                  /\ localStore[key].kind = "json") =>
                 /\ sessionStats' = <<>>
                 /\ \A q \in DOMAIN stored :
                       q \in DOMAIN userStats' /\ userStats'[q] = stored[q]
           /\ (lastOp' = "answer" /\ statsOf = currentQuizId /\ bankOf = currentQuizId
                  /\ localStore[key].kind = "json") =>
                 \A q \in DOMAIN stored :
                     /\ q \in DOMAIN localStore'[key].val
                     /\ IsPrefix(stored[q], localStore'[key].val[q])]_vars

\* ---- claims about the click handlers
\* The listeners on the check button: at most one, and while a card is
\* displayed a check handler is the one of the displayed question.
HandlersCurrent ==
    page = "quiz" =>
        /\ Len(dom.handlers) <= 1
        /\ \A i \in 1..Len(dom.handlers) :
              (dom.handlers[i].h = "check" /\ dom.flashcardVisible) =>
                  dom.handlers[i].q = dom.shown /\ dom.shown \in Range(allQuestions)
TotalEntries(stats) ==
    LET RECURSIVE Sum(_)
        Sum(S) == IF S = {} THEN 0
                  ELSE LET q == CHOOSE x \in S : TRUE
                       IN  Len(stats[q]) + Sum(S \ {q})
    IN  Sum(DOMAIN stats)

AllCorrect == \A i \in 1..Len(sessionStats) : sessionStats[i]
AllWrong == \A i \in 1..Len(sessionStats) : ~sessionStats[i]

\* C29: from empty histories on a bank of N >= 1 questions, while every
\* answer is correct, Complete is shown only after exactly 3 * N answers,
\* every question then has exactly 3 answers, no question ever has more,
\* and before that a question is on display to be answered.
C29_AllCorrectCompletesAfter3N ==
    AllCorrect =>
        LET N == Len(allQuestions)
            done == Len(sessionStats)
        IN  /\ done <= 3 * N
            /\ \A q \in Range(allQuestions) : Len(userStats[q]) <= 3
            /\ TotalEntries(userStats) = done
            /\ dom.completeVisible => done = 3 * N
            /\ done = 3 * N =>
                  /\ \A q \in Range(allQuestions) : userStats[q] = <<TRUE, TRUE, TRUE>>
                  /\ lastOp = "next" => dom.completeVisible
            /\ done < 3 * N =>
                  /\ dom.flashcardVisible
                  /\ dom.shown \in Range(allQuestions)
                  /\ lastOp # "answer" =>
                        /\ dom.handlers = <<[h |-> "check", q |-> dom.shown]>>
                        /\ Len(userStats[dom.shown]) < 3

C29_Witness ==
    /\ AllCorrect
    /\ Len(allQuestions) = 3
    /\ Len(sessionStats) = 9
    /\ lastOp = "next"
    /\ dom.completeVisible
    /\ \A q \in Range(allQuestions) : userStats[q] = <<TRUE, TRUE, TRUE>>

\* ---- claims about unattempted questions
\* The sign of the recency-weighted sum of h, the sum taken times 10^(n-1):
\* entry i of n weighs 9^(n-i) * 10^(i-1).
WeightedSum(h) ==
    LET n == Len(h)
        RECURSIVE Sum(_)
        Sum(i) == IF i = 0 THEN 0
                  ELSE Sum(i - 1) + (IF h[i] THEN 1 ELSE -1) * Pow(9, n - i) * Pow(10, i - 1)
    IN  Sum(n)
\* The questions the next call of selectNextQuestion chooses from.
PoolNow ==
    LET open == {q \in Range(allQuestions) : ~LastThreeTrue(userStats[q])}
    IN  IF Cardinality(open) > 1 THEN open \ {lastQuestionId} ELSE open
NeverAnswered == {q \in Range(allQuestions) : userStats[q] = <<>>}

\* C30: selectNextQuestion never returns a question with an empty history
\* while its candidate pool holds a question with a negative score; and in
\* a bank of 3 questions, while every answer is wrong, the question that
\* was not among the first two served is never served: it stays
\* unattempted however many answers are given.
C30_UnattemptedWaitsForNegative ==
    [][/\ (lastOp' = "next" /\ ~dom'.completeVisible /\ userStats[lastQuestionId'] = <<>>)
             => \A q \in PoolNow : WeightedSum(userStats[q]) >= 0
       /\ (AllWrong' /\ Len(allQuestions') = 3 /\ Len(sessionStats') >= 2) =>
             /\ Cardinality(NeverAnswered') = 1
             /\ lastOp' = "next" =>
                   dom'.shown \notin NeverAnswered' /\ dom'.flashcardVisible]_vars

C30_Witness ==
    /\ AllWrong
    /\ Len(allQuestions) = 3
    /\ Len(sessionStats) = 8
    /\ Cardinality(NeverAnswered) = 1
    /\ \E q \in Range(allQuestions) : WeightedSum(userStats[q]) < 0 /\ Len(userStats[q]) = 4

====
